---- MODULE Spec2Model ----
(***************************************************************************)
(* Model of the shopsmart-ai backend: the content-based Recommender        *)
(* (backend/recommender.py) and the request handlers of backend/app.py     *)
(* that use it together with the MongoDB products collection.              *)
(*                                                                         *)
(* Text.  A Python string is modelled as a sequence of lexemes: a lexeme   *)
(* is either the blank " " or a maximal run of word characters.  The empty *)
(* string is << >>.  A CSV cell that pandas reads as missing is NaN.       *)
(*                                                                         *)
(* Numbers.  float64 values are modelled in fixed point: idf weights carry *)
(* the factor IdfScale, L2-normalised vector components the factor Scale   *)
(* and cosine similarities the factor Scale * Scale.                       *)
(***************************************************************************)
EXTENDS Integers, Sequences, FiniteSets, TLC

VARIABLES
    csv,            \* the rows of data/products.csv
    constructed,    \* TRUE once Recommender.__init__ has returned
    df,             \* Recommender.df
    vectorizer,     \* Recommender.vectorizer: vocabulary_ and idf_
    tfidf_matrix,   \* Recommender.tfidf_matrix
    cosine_sim,     \* Recommender.cosine_sim
    resp,           \* the last call, its local variables and its outcome
    reused,         \* TRUE once a query ran on an object that had answered one
    products_col,   \* the MongoDB collection shopsmart.products, in natural order
    req,            \* the HTTP requests in flight: handler, position, locals
    reviews_col,    \* the MongoDB collection shopsmart.reviews, in natural order
    product_stats,  \* the keys rating and review_count of the documents of
                    \* products_col, in the same order
    review_req      \* the add_review requests in flight: position, locals

vars ==
    <<csv, constructed, df, vectorizer, tfidf_matrix, cosine_sim, resp,
      reused, products_col, req, reviews_col, product_stats, review_req>>

reviewVars == <<reviews_col, product_stats, review_req>>

mongoVars == <<products_col, req, reviewVars>>

recVars == <<constructed, df, vectorizer, tfidf_matrix, cosine_sim>>

coreVars == <<csv, recVars, resp, reused>>

-----------------------------------------------------------------------------
(* Bounds of the model *)

\* most rows in data/products.csv
MaxRows == 3

\* the result-count limit n ranges over -MinN .. MaxN
MaxN == 3

MinN == 2

\* HTTP requests served concurrently
MaxReqs == 2

\* how many of the products of /api/seed the model keeps
SeedCount == 3

-----------------------------------------------------------------------------
(* Fixed-point representation of float64 *)

IdfScale == 1000

Scale == 10000

\* 1000 * ln(k) for k = 1 .. 8
LnTable == <<0, 693, 1099, 1386, 1609, 1792, 1946, 2079>>

RECURSIVE IsqrtBetween(_, _, _)
IsqrtBetween(x, lo, hi) ==
    IF lo >= hi THEN lo
    ELSE LET mid == (lo + hi + 1) \div 2
         IN  IF mid * mid <= x THEN IsqrtBetween(x, mid, hi)
                               ELSE IsqrtBetween(x, lo, mid - 1)

\* floor of the square root
Isqrt(x) == IsqrtBetween(x, 0, 46340)

RECURSIVE SumOver(_, _)
SumOver(S, f) ==
    IF S = {} THEN 0
    ELSE LET t == CHOOSE t \in S : TRUE
         IN  f[t] + SumOver(S \ {t}, f)

Range(s) == { s[i] : i \in DOMAIN s }

-----------------------------------------------------------------------------
(* Text: pandas cells, string concatenation, the TfidfVectorizer analyzer *)

\* the value pandas gives a missing cell
NaN == <<"NaN">>

Blank == " "

\* Series + str and Series + Series on object columns: a missing operand
\* makes the result missing
StrAdd(a, b) == IF a = NaN \/ b = NaN THEN NaN ELSE a \o b

\* Series.fillna('')
FillNa(a) == IF a = NaN THEN << >> ELSE a

\* str.lower() on one run of word characters
Lower(w) ==
    CASE w = "Red" -> "red"
      [] w = "Blue" -> "blue"
      [] w = "Shoe" -> "shoe"
      [] w = "Laptop" -> "laptop"
      [] w = "Fashion" -> "fashion"
      [] w = "Electronics" -> "electronics"
      [] w = "The" -> "the"
      [] w = "And" -> "and"
      [] OTHER -> w

\* runs of a single word character: the token pattern \w\w+ skips them
OneChar == {"a", "5"}

\* the members of sklearn's ENGLISH_STOP_WORDS that occur in the model's texts
StopWords == {"the", "and", "of", "for", "with"}

\* TfidfVectorizer.build_analyzer(): lower-case, tokenise, drop stop words
RECURSIVE Analyze(_)
Analyze(text) ==
    IF text = << >> THEN << >>
    ELSE LET w == Lower(Head(text))
             rest == Analyze(Tail(text))
         IN  IF w = Blank \/ w \in OneChar \/ w \in StopWords
             THEN rest
             ELSE <<w>> \o rest

\* number of occurrences of term t in a token sequence
Count(toks, t) == Cardinality({ i \in DOMAIN toks : toks[i] = t })

-----------------------------------------------------------------------------
(* Recommender.__init__ *)

\* df['metadata'] of one row
Metadata(row) ==
    FillNa(StrAdd(StrAdd(StrAdd(StrAdd(row.name, <<Blank>>), row.category),
                         <<Blank>>), row.description))

\* self.df after line 9: the rows of the file with the metadata column added
ReadFrame(file) ==
    [ i \in DOMAIN file |->
        [ product_id  |-> file[i].product_id,
          name        |-> file[i].name,
          category    |-> file[i].category,
          description |-> file[i].description,
          metadata    |-> Metadata(file[i]) ] ]

\* the retained terms of all documents (vectorizer.vocabulary_)
FitVocabulary(frame) ==
    UNION { Range(Analyze(frame[i].metadata)) : i \in DOMAIN frame }

\* number of documents that contain term t
DocFreq(frame, t) ==
    Cardinality({ i \in DOMAIN frame : t \in Range(Analyze(frame[i].metadata)) })

\* smooth idf: ln((1 + n) / (1 + df)) + 1
Idf(frame, t) ==
    LnTable[1 + Len(frame)] - LnTable[1 + DocFreq(frame, t)] + IdfScale

\* L2 normalisation of one row (sklearn.preprocessing.normalize): a zero
\* row stays zero
Normalize(v) ==
    LET norm == Isqrt(SumOver(DOMAIN v, [t \in DOMAIN v |-> v[t] * v[t]]))
    IN  IF norm = 0 THEN v
        ELSE [t \in DOMAIN v |-> (v[t] * Scale) \div norm]

\* vectorizer.transform of one text against a fitted vocabulary and idf
Transform(vocab, idf, text) ==
    LET toks == Analyze(text)
    IN  Normalize([t \in vocab |-> Count(toks, t) * idf[t]])

\* the fitted vectorizer
Fit(frame) ==
    LET vocab == FitVocabulary(frame)
    IN  [ vocabulary_ |-> vocab, idf_ |-> [t \in vocab |-> Idf(frame, t)] ]

\* vectorizer.fit_transform(df['metadata'])
FitTransform(frame) ==
    LET vz == Fit(frame)
    IN  [ i \in DOMAIN frame |->
            Transform(vz.vocabulary_, vz.idf_, frame[i].metadata) ]

\* the dot product with the first operand taken twice
Dot_FirstOnly(u, v) == SumOver(DOMAIN u, [t \in DOMAIN u |-> u[t] * u[t]])

Dot(u, v) == SumOver(DOMAIN u, [t \in DOMAIN u |-> u[t] * v[t]])

\* sklearn cosine_similarity of one vector with one vector: both are
\* normalised again, then multiplied
Cosine(u, v) == Dot(Normalize(u), Normalize(v))

\* cosine_similarity(X): the full matrix
CosineMatrix(X) ==
    [ i \in DOMAIN X |-> [ j \in DOMAIN X |-> Cosine(X[i], X[j]) ] ]

-----------------------------------------------------------------------------
(* Python list operations used by the queries *)

Min(a, b) == IF a < b THEN a ELSE b

Max(a, b) == IF a > b THEN a ELSE b

\* a slice bound as Python clamps it for a list of length len
SliceBound(i, len) == IF i < 0 THEN Max(i + len, 0) ELSE Min(i, len)

\* s[start:stop] with Python's 0-based, negative-aware bounds
PySlice(s, start, stop) ==
    SubSeq(s, SliceBound(start, Len(s)) + 1, SliceBound(stop, Len(s)))

Reverse(s) == [ i \in DOMAIN s |-> s[Len(s) + 1 - i] ]

\* sorted(enumerate(row), key=score, reverse=True): a stable sort, so equal
\* scores stay in ascending row order
RECURSIVE SortedDescFrom(_, _)
SortedDescFrom(row, left) ==
    IF left = {} THEN << >>
    ELSE LET best == CHOOSE i \in left :
                        \A j \in left :
                            \/ row[i] > row[j]
                            \/ row[i] = row[j] /\ i <= j
         IN  <<best>> \o SortedDescFrom(row, left \ {best})

SortedDesc(row) == SortedDescFrom(row, DOMAIN row)

Perms(S) ==
    { p \in [1 .. Cardinality(S) -> S] :
        \A i, j \in DOMAIN p : i # j => p[i] # p[j] }

\* numpy argsort with the default (unstable) kind: every ascending order of
\* the positions is a possible outcome, equal values in any order
ArgSorts(row) ==
    { p \in Perms(DOMAIN row) :
        \A i, j \in DOMAIN p : i < j => row[p[i]] <= row[p[j]] }

-----------------------------------------------------------------------------
(* The queries of Recommender, as functions of the object's fields *)

ProductIds(frame) == { frame[i].product_id : i \in DOMAIN frame }

\* self.df.index[self.df['product_id'] == pid][0]
IndexOf(frame, pid) ==
    CHOOSE i \in DOMAIN frame :
        /\ frame[i].product_id = pid
        /\ \A j \in DOMAIN frame : frame[j].product_id = pid => i <= j

\* self.df.iloc[indices].to_dict(orient='records')
Records(frame, indices) == [ k \in DOMAIN indices |-> frame[indices[k]] ]

Answer(frame, indices, sims) ==
    [ indices |-> indices, records |-> Records(frame, indices), sims |-> sims ]

EmptyAnswer == [ indices |-> << >>, records |-> << >>, sims |-> << >> ]

\* recommend_by_id without the guard of lines 18-19: an absent pid falls
\* through to the first row
ById_NoAbsentGuard(rec, pid, n) ==
    LET idx    == IF pid \in ProductIds(rec.df) THEN IndexOf(rec.df, pid) ELSE 1
        scores == SortedDesc(rec.cosine_sim[idx])
    IN  Answer(rec.df, PySlice(scores, 1, n + 1), rec.cosine_sim[idx])

\* recommend_by_id(pid, n)
ById(rec, pid, n) ==
    IF pid \notin ProductIds(rec.df) THEN EmptyAnswer
    ELSE LET idx    == IndexOf(rec.df, pid)
             scores == SortedDesc(rec.cosine_sim[idx])
         IN  Answer(rec.df, PySlice(scores, 1, n + 1), rec.cosine_sim[idx])

\* valid_ids of recommend_by_cart
ValidIds(frame, pids) ==
    SelectSeq(pids, LAMBDA pid : pid \in ProductIds(frame))

\* np.mean(self.tfidf_matrix[idxs], axis=0)
MeanVec(rec, idxs) ==
    [ t \in rec.vectorizer.vocabulary_ |->
        SumOver(DOMAIN idxs, [k \in DOMAIN idxs |-> rec.tfidf_matrix[idxs[k]][t]])
            \div Len(idxs) ]

\* cosine_similarity(vec, self.tfidf_matrix).flatten()
SimsTo(rec, vec) ==
    [ j \in DOMAIN rec.tfidf_matrix |-> Cosine(vec, rec.tfidf_matrix[j]) ]

\* sims of recommend_by_cart
CartSims(rec, pids) ==
    LET valid == ValidIds(rec.df, pids)
        idxs  == [ k \in DOMAIN valid |-> IndexOf(rec.df, valid[k]) ]
    IN  SimsTo(rec, MeanVec(rec, idxs))

\* the loop of recommend_by_cart from position k of rel_idxs on
RECURSIVE CartLoop(_, _, _, _, _, _)
CartLoop(frame, rel_idxs, valid, n, k, final) ==
    IF k > Len(rel_idxs) THEN final
    ELSE LET i    == rel_idxs[k]
             next == IF frame[i].product_id \notin Range(valid)
                     THEN Append(final, i) ELSE final
         IN  IF Len(next) >= n THEN next
             ELSE CartLoop(frame, rel_idxs, valid, n, k + 1, next)

\* recommend_by_cart without the guard of lines 35-36: with no valid id the
\* mean is taken over no row and every product is ranked with score 0
ByCart_NoEmptyGuard(rec, pids, n, argsort) ==
    LET valid == ValidIds(rec.df, pids)
    IN  IF valid = << >>
        THEN Answer(rec.df,
                    CartLoop(rec.df, [ i \in DOMAIN rec.df |-> i ], valid, n,
                             1, << >>),
                    [ i \in DOMAIN rec.df |-> 0 ])
        ELSE Answer(rec.df,
                    CartLoop(rec.df, Reverse(argsort), valid, n, 1, << >>),
                    CartSims(rec, pids))

\* recommend_by_cart without the test of line 44: the products of the cart
\* are not skipped
ByCart_NoExclusion(rec, pids, n, argsort) ==
    LET valid == ValidIds(rec.df, pids)
    IN  IF valid = << >> THEN EmptyAnswer
        ELSE Answer(rec.df, PySlice(Reverse(argsort), 0, n),
                    CartSims(rec, pids))

\* recommend_by_cart(pids, n), given the outcome of sims.argsort()
ByCart(rec, pids, n, argsort) ==
    LET valid == ValidIds(rec.df, pids)
    IN  IF valid = << >> THEN EmptyAnswer
        ELSE Answer(rec.df,
                    CartLoop(rec.df, Reverse(argsort), valid, n, 1, << >>),
                    CartSims(rec, pids))

\* sims of recommend_by_search
SearchSims(rec, query) ==
    SimsTo(rec, Transform(rec.vectorizer.vocabulary_, rec.vectorizer.idf_, query))

\* recommend_by_search without the [::-1] of line 54: lowest scores first
BySearch_Ascending(rec, query, n, argsort) ==
    IF query = << >> THEN EmptyAnswer
    ELSE Answer(rec.df, PySlice(argsort, 0, n), SearchSims(rec, query))

\* recommend_by_search(query, n), given the outcome of sims.argsort()
BySearch(rec, query, n, argsort) ==
    IF query = << >> THEN EmptyAnswer
    ELSE Answer(rec.df, PySlice(Reverse(argsort), 0, n), SearchSims(rec, query))

-----------------------------------------------------------------------------
(* The inputs: catalog files, product ids, carts, queries and limits *)

Product(id, name, category, description) ==
    [ product_id |-> id, name |-> name, category |-> category,
      description |-> description ]

\* the rows a catalog file is made of: the three-product scenario catalog,
\* a second product with the text of the first, a row with a missing cell
\* and a row made of stop words only
Pool ==
    { Product(1, <<"Red", Blank, "Shoe">>, <<"Fashion">>,
              <<"comfortable", Blank, "red", Blank, "running", Blank, "shoe">>),
      Product(2, <<"Blue", Blank, "Shoe">>, <<"Fashion">>,
              <<"comfortable", Blank, "blue", Blank, "running", Blank, "shoe">>),
      Product(3, <<"Laptop">>, <<"Electronics">>,
              <<"powerful", Blank, "gaming", Blank, "laptop">>),
      Product(4, <<"Red", Blank, "Shoe">>, <<"Fashion">>,
              <<"comfortable", Blank, "red", Blank, "running", Blank, "shoe">>),
      Product(5, <<"Laptop">>, <<"Electronics">>, NaN),
      Product(6, <<"The">>, <<"And">>, <<"of", Blank, "the">>) }

\* an id no catalog holds
UnknownId == 999

\* catalog files: up to MaxRows rows of the pool, in any order, ids unique
Catalogs ==
    UNION { { f \in [1 .. k -> Pool] :
                \A i, j \in 1 .. k : i # j => f[i] # f[j] } : k \in 0 .. MaxRows }

Pids == { p.product_id : p \in Pool } \cup { UnknownId }

Carts ==
    { << >>, <<UnknownId>>, <<1>>, <<5>>, <<1, 2>>, <<1, 4>>,
      <<1, UnknownId>>, <<3, 6>>, <<1, 1, 3>>, <<1, 2, 3>> }

Queries ==
    { << >>, <<Blank>>, <<"laptop">>, <<"the", Blank, "phone">>,
      <<"red", Blank, "shoe">>, <<"gaming", Blank, "a", Blank, "Laptop">> }

Limits == (0 - MinN) .. MaxN

-----------------------------------------------------------------------------
(* The state machine of the Recommender *)

NoCall ==
    [ op |-> "none", pid |-> 0, pids |-> << >>, query |-> << >>, n |-> 0,
      outcome |-> "none", indices |-> << >>, records |-> << >>, sims |-> << >> ]

Call(op, pid, pids, query, n, outcome, answer) ==
    [ op |-> op, pid |-> pid, pids |-> pids, query |-> query, n |-> n,
      outcome |-> outcome, indices |-> answer.indices,
      records |-> answer.records, sims |-> answer.sims ]

\* the fields of the constructed object
Self ==
    [ df |-> df, vectorizer |-> vectorizer, tfidf_matrix |-> tfidf_matrix,
      cosine_sim |-> cosine_sim ]

\* Recommender(csv_path) as a value: the fields __init__ leaves behind
Build(file) ==
    LET frame == ReadFrame(file)
        X     == FitTransform(frame)
    IN  [ df |-> frame, vectorizer |-> Fit(frame), tfidf_matrix |-> X,
          cosine_sim |-> CosineMatrix(X) ]

\* fit_transform raises ValueError("empty vocabulary") when no document
\* holds a retained term
BuildRaises(file) == FitVocabulary(ReadFrame(file)) = {}

Reqs == 1 .. MaxReqs

\* a document of products_col; image_url is NoUrl when the key is absent
Doc(id, category, price, image_url) ==
    [ product_id |-> id, category |-> category, price |-> price,
      image_url |-> image_url ]

NoUrl == "absent"

\* the None that find_one returns
NoDoc == Doc(0, "", 0, NoUrl)

\* a request slot no handler runs in
Idle ==
    [ handler |-> "none", pc |-> "idle", pid |-> 0, status |-> 0,
      product |-> NoDoc, similar |-> << >>, k |-> 0, via |-> "none" ]

\* the None of get_current_user when the request carries no token
NoUser == "none"

\* an add_review request slot no handler runs in
ReviewIdle ==
    [ pc |-> "idle", pid |-> 0, user |-> NoUser, rating |-> 0, status |-> 0,
      count |-> 0, avg |-> 0 ]

Init ==
    /\ csv \in Catalogs
    /\ constructed = FALSE
    /\ df = << >>
    /\ vectorizer = [ vocabulary_ |-> {}, idf_ |-> << >> ]
    /\ tfidf_matrix = << >>
    /\ cosine_sim = << >>
    /\ resp = NoCall
    /\ reused = FALSE
    /\ products_col = << >>
    /\ req = [ r \in Reqs |-> Idle ]
    /\ reviews_col = << >>
    /\ product_stats = << >>
    /\ review_req = [ r \in Reqs |-> ReviewIdle ]

\* Recommender.__init__(csv_path)
Construct ==
    /\ ~constructed
    /\ resp.op = "none"
    /\ IF BuildRaises(csv)
       THEN /\ resp' = Call("init", 0, << >>, << >>, 0, "ValueError", EmptyAnswer)
            /\ UNCHANGED recVars
       ELSE LET rec == Build(csv)
            IN  /\ constructed' = TRUE
                /\ df' = rec.df
                /\ vectorizer' = rec.vectorizer
                /\ tfidf_matrix' = rec.tfidf_matrix
                /\ cosine_sim' = rec.cosine_sim
                /\ resp' = Call("init", 0, << >>, << >>, 0, "ok", EmptyAnswer)
    /\ UNCHANGED <<csv, reused, mongoVars>>

\* every handler of app.py constructs its own Recommender and issues one
\* query on it (app.py lines 183-184, 203-204, 219-220)
Fresh == constructed /\ resp.op = "init"

\* vectorizer.transform([query]) reads vocabulary_ and idf_ and fits
\* nothing: the vectorizer after the call (line 52)
AfterFitTransform(vz, query) == Fit(<<[ metadata |-> query ]>>)

AfterTransform(vz, query) == vz

\* the values of pids that int() converts (line 33), and the lists with a
\* value it raises ValueError on
Numerals == [ x \in {"1", "2"} |-> IF x = "1" THEN 1 ELSE 2 ]

RawCarts == { <<"abc">>, <<"1", "abc">> }

IntRaises(pids) == \E k \in DOMAIN pids : pids[k] \notin DOMAIN Numerals

\* the body of recommend_by_id(pid, n), on an object in any state
CallById ==
    /\ \E pid \in Pids, n \in Limits :
          resp' = Call("by_id", pid, << >>, << >>, n, "ok", ById(Self, pid, n))
    /\ reused' = (resp.op # "init")
    /\ UNCHANGED <<csv, recVars, mongoVars>>

\* the body of recommend_by_cart(pids, n)
CallByCart ==
    /\ \E pids \in Carts :
          LET sims == IF ValidIds(df, pids) = << >> THEN << >>
                      ELSE CartSims(Self, pids)
          IN  \E argsort \in ArgSorts(sims), n \in Limits :
                resp' = Call("by_cart", 0, pids, << >>, n, "ok",
                             ByCart(Self, pids, n, argsort))
    /\ reused' = (resp.op # "init")
    /\ UNCHANGED <<csv, recVars, mongoVars>>

\* recommend_by_cart(pids, n) where int(pid) raises in line 33
CallByCartRaises ==
    /\ \E pids \in RawCarts, n \in Limits :
          /\ IntRaises(pids)
          /\ resp' = Call("by_cart", 0, pids, << >>, n, "ValueError", EmptyAnswer)
    /\ reused' = (resp.op # "init")
    /\ UNCHANGED <<csv, recVars, mongoVars>>

\* the body of recommend_by_search(query, n)
CallBySearch ==
    /\ \E query \in Queries :
          LET sims == IF query = << >> THEN << >> ELSE SearchSims(Self, query)
          IN  /\ \E argsort \in ArgSorts(sims), n \in Limits :
                    resp' = Call("by_search", 0, << >>, query, n, "ok",
                                 BySearch(Self, query, n, argsort))
              /\ vectorizer' = IF query = << >> THEN vectorizer
                               ELSE AfterTransform(vectorizer, query)
    /\ reused' = (resp.op # "init")
    /\ UNCHANGED <<csv, constructed, df, tfidf_matrix, cosine_sim, mongoVars>>

\* Recommender.recommend_by_id(pid, n)
RecommendById == Fresh /\ CallById

\* Recommender.recommend_by_cart(pids, n)
RecommendByCart == Fresh /\ CallByCart

\* Recommender.recommend_by_search(query, n)
RecommendBySearch == Fresh /\ CallBySearch

Next ==
    \/ Construct
    \/ RecommendById
    \/ RecommendByCart
    \/ RecommendBySearch

Spec == Init /\ [][Next]_vars

-----------------------------------------------------------------------------
(* One Recommender answering a query after another *)

\* the catalog of the scenario, products 1, 2 and 3, and one with a product
\* of no retained term and two products of the same text
SeqCatalogs ==
    { c \in Catalogs :
        [ i \in DOMAIN c |-> c[i].product_id ] \in { <<1, 2, 3>>, <<6, 1, 4>> } }

InitSeq == Init /\ csv \in SeqCatalogs

\* the object is built and has not yet answered a second query
Reusable == constructed /\ ~reused

AgainById == Reusable /\ CallById

AgainByCart == Reusable /\ CallByCart

AgainByCartRaises == Reusable /\ CallByCartRaises

AgainBySearch == Reusable /\ CallBySearch

NextSeq ==
    \/ Construct
    \/ AgainById
    \/ AgainByCart
    \/ AgainByCartRaises
    \/ AgainBySearch

SpecSeq == InitSeq /\ [][NextSeq]_vars

-----------------------------------------------------------------------------
(* MongoDB products collection and the handlers of app.py that use it *)

\* what seed_products.py leaves in the collection (its documents carry the
\* key image, not image_url)
ScriptProducts ==
    << Doc(1, "Mobile", 69999, NoUrl),
       Doc(2, "Mobile", 74999, NoUrl),
       Doc(3, "Accessories", 12999, NoUrl) >>

\* PRODUCTS of /api/seed
SeedList ==
    << Doc(1, "Electronics", 134999, "gstatic/RPAYIinm"),
       Doc(2, "Electronics", 114999, "gstatic/THwKWRGak"),
       Doc(3, "Electronics", 29999, "unsplash/1505740420928"),
       Doc(4, "Electronics", 8999, "unsplash/1511467687858"),
       Doc(5, "Electronics", 79999, "unsplash/1678911820864") >>

\* the products of /api/seed the model keeps
SeedProducts == SubSeq(SeedList, 1, Min(SeedCount, Len(SeedList)))

\* a key a document does not carry
Absent == 0 - 1

\* rating in tenths and review_count of the documents of seed_products.py
\* (4.6, 4.5, 4.4 and no review_count) and of /api/seed (0 and 0)
ScriptStats ==
    << [ rating |-> 46, review_count |-> Absent ],
       [ rating |-> 45, review_count |-> Absent ],
       [ rating |-> 44, review_count |-> Absent ] >>

SeedStats == [ i \in DOMAIN SeedProducts |-> [ rating |-> 0, review_count |-> 0 ] ]

\* n of rec.recommend_by_id(pid, n=4) and of .limit(4) in get_product
SimilarLimit == 4

\* products_col.find_one({"product_id": pid})
FindOne(col, pid) ==
    IF \E i \in DOMAIN col : col[i].product_id = pid
    THEN col[CHOOSE i \in DOMAIN col :
                /\ col[i].product_id = pid
                /\ \A j \in DOMAIN col : col[j].product_id = pid => i <= j]
    ELSE NoDoc

\* an entry of product["similar"]: the record of the recommender before the
\* prices of MongoDB are put in
FromCsv(row) ==
    [ product_id |-> row.product_id, enriched |-> FALSE, price |-> 0,
      image_url |-> "csv" ]

\* lines 119-122 of get_product for one entry, given what find_one returned
Enrich(s, mongo_s) ==
    IF mongo_s = NoDoc THEN s
    ELSE [ product_id |-> s.product_id, enriched |-> TRUE,
           price |-> mongo_s.price,
           image_url |-> IF mongo_s.image_url = NoUrl THEN s.image_url
                         ELSE mongo_s.image_url ]

\* similar_raw = Recommender(csv_path).recommend_by_id(pid, n=4)
SimilarRaw(file, pid) ==
    LET recs == ById(Build(file), pid, SimilarLimit).records
    IN  [ k \in DOMAIN recs |-> FromCsv(recs[k]) ]

\* the fallback of get_product: same-category documents, at most 4
SameCategory(col, product, pid) ==
    LET hits == SelectSeq(col, LAMBDA d : d.category = product.category
                                           /\ d.product_id # pid)
    IN  [ k \in DOMAIN PySlice(hits, 0, SimilarLimit) |->
            [ product_id |-> hits[k].product_id, enriched |-> TRUE,
              price |-> hits[k].price, image_url |-> hits[k].image_url ] ]

\* the catalog files the handlers read: the scenario catalog or a file
\* without rows
HandlerCatalogs ==
    { f \in Catalogs :
        [ i \in DOMAIN f |-> f[i].product_id ] \in { << >>, <<1, 2, 3>> } }

InitMongo ==
    /\ csv \in HandlerCatalogs
    /\ constructed = FALSE
    /\ df = << >>
    /\ vectorizer = [ vocabulary_ |-> {}, idf_ |-> << >> ]
    /\ tfidf_matrix = << >>
    /\ cosine_sim = << >>
    /\ resp = NoCall
    /\ reused = FALSE
    /\ products_col = ScriptProducts
    /\ req = [ r \in Reqs |-> Idle ]
    /\ reviews_col = << >>
    /\ product_stats = ScriptStats
    /\ review_req = [ r \in Reqs |-> ReviewIdle ]

\* get_product, line 101-103: find the product or answer 404
GetProductFind(r) ==
    /\ req[r].pc = "idle"
    /\ \E pid \in {1, 2, UnknownId} :
          LET product == FindOne(products_col, pid)
          IN  req' = [ req EXCEPT ![r] =
                        [ @ EXCEPT !.handler = "get_product", !.pid = pid,
                                   !.product = product,
                                   !.pc = IF product = NoDoc THEN "done"
                                          ELSE "recommend",
                                   !.status = IF product = NoDoc THEN 404
                                              ELSE 0 ] ]
    /\ UNCHANGED <<coreVars, products_col, reviewVars>>

\* get_product, lines 105-115: build the recommender and ask it; an
\* exception leads to the except branch (the reviews attached in lines
\* 106-108 come from another collection and take no part in product["similar"])
GetProductRecommend(r) ==
    /\ req[r].pc = "recommend"
    /\ IF BuildRaises(csv)
       THEN req' = [ req EXCEPT ![r].pc = "fallback" ]
       ELSE LET raw == SimilarRaw(csv, req[r].pid)
            IN  req' = [ req EXCEPT ![r] =
                          [ @ EXCEPT !.similar = raw, !.k = 1,
                                     !.via = "recommender",
                                     !.pc = IF raw = << >> THEN "done"
                                            ELSE "enrich",
                                     !.status = IF raw = << >> THEN 200
                                                ELSE 0 ] ]
    /\ UNCHANGED <<coreVars, products_col, reviewVars>>

\* get_product, lines 117-123: one turn of the loop, one find_one
GetProductEnrich(r) ==
    /\ req[r].pc = "enrich"
    /\ LET k       == req[r].k
           s       == req[r].similar[k]
           mongo_s == FindOne(products_col, s.product_id)
           last    == k = Len(req[r].similar)
       IN  req' = [ req EXCEPT ![r] =
                     [ @ EXCEPT !.similar[k] = Enrich(s, mongo_s),
                                !.k = k + 1,
                                !.pc = IF last THEN "done" ELSE "enrich",
                                !.status = IF last THEN 200 ELSE 0 ] ]
    /\ UNCHANGED <<coreVars, products_col, reviewVars>>

\* get_product, lines 124-129: the same-category fallback
GetProductFallback(r) ==
    /\ req[r].pc = "fallback"
    /\ req' = [ req EXCEPT ![r] =
                 [ @ EXCEPT !.similar =
                                SameCategory(products_col, req[r].product,
                                             req[r].pid),
                            !.via = "fallback", !.pc = "done",
                            !.status = 200 ] ]
    /\ UNCHANGED <<coreVars, products_col, reviewVars>>

\* seed, line 356: products_col.delete_many({})
SeedDelete(r) ==
    /\ req[r].pc = "idle"
    /\ products_col' = << >>
    /\ product_stats' = << >>
    /\ req' = [ req EXCEPT ![r] = [ @ EXCEPT !.handler = "seed", !.pc = "insert" ] ]
    /\ UNCHANGED <<coreVars, reviews_col, review_req>>

\* seed, lines 357-358: products_col.insert_many(PRODUCTS)
SeedInsert(r) ==
    /\ req[r].pc = "insert"
    /\ products_col' = products_col \o SeedProducts
    /\ product_stats' = product_stats \o SeedStats
    /\ req' = [ req EXCEPT ![r] = [ @ EXCEPT !.pc = "done", !.status = 200 ] ]
    /\ UNCHANGED <<coreVars, reviews_col, review_req>>

NextMongo ==
    \E r \in Reqs :
        \/ GetProductFind(r)
        \/ GetProductRecommend(r)
        \/ GetProductEnrich(r)
        \/ GetProductFallback(r)
        \/ SeedDelete(r)
        \/ SeedInsert(r)

SpecMongo == InitMongo /\ [][NextMongo]_vars

-----------------------------------------------------------------------------
(* POST /api/products/<pid>/reviews: add_review and recalc_rating *)

\* the product ids, users and ratings of the requests
ReviewPids == { 1, 2, UnknownId }

Users == { "asha@mail", "ravi@mail" }

Ratings == { 0, 2, 5, 6 }

\* a document of reviews_col
Review(pid, user, rating) ==
    [ product_id |-> pid, user_email |-> user, rating |-> rating ]

\* reviews_col.find({"product_id": pid})
FindReviews(col, pid) == SelectSeq(col, LAMBDA d : d.product_id = pid)

\* reviews_col.find_one({"product_id": pid, "user_email": email}) is not None
HasReview(col, pid, user) ==
    \E i \in DOMAIN col : col[i].product_id = pid /\ col[i].user_email = user

\* round(total / count, 1) in tenths: to the nearest tenth, a tie to the
\* even one
Round1(total, count) ==
    LET q == (10 * total) \div count
        m == (10 * total) % count
    IN  IF 2 * m < count THEN q
        ELSE IF 2 * m > count THEN q + 1
        ELSE IF q % 2 = 0 THEN q ELSE q + 1

\* sum(r["rating"] for r in reviews)
SumRatings(reviews) ==
    SumOver(DOMAIN reviews, [ i \in DOMAIN reviews |-> reviews[i].rating ])

\* products_col.update_one({"product_id": pid}, {"$set": {...}}): the first
\* document with the id gets the two keys, no document is no change
UpdateOne(col, stats, pid, avg, count) ==
    IF \E i \in DOMAIN col : col[i].product_id = pid
    THEN LET i == CHOOSE i \in DOMAIN col :
                    /\ col[i].product_id = pid
                    /\ \A j \in DOMAIN col : col[j].product_id = pid => i <= j
         IN  [ stats EXCEPT ![i] = [ rating |-> avg, review_count |-> count ] ]
    ELSE stats

\* the request r ends with a status
Answered(r, status) ==
    review_req' = [ review_req EXCEPT ![r] = [ @ EXCEPT !.pc = "done", !.status = status ] ]

InitReviews ==
    /\ csv = << >>
    /\ constructed = FALSE
    /\ df = << >>
    /\ vectorizer = [ vocabulary_ |-> {}, idf_ |-> << >> ]
    /\ tfidf_matrix = << >>
    /\ cosine_sim = << >>
    /\ resp = NoCall
    /\ reused = FALSE
    /\ products_col = SeedProducts
    /\ req = [ r \in Reqs |-> Idle ]
    /\ reviews_col = << >>
    /\ product_stats = SeedStats
    /\ review_req = [ r \in Reqs |-> ReviewIdle ]

\* add_review, lines 142-155: the user of the token, the rating of the
\* body, products_col.find_one
AddReviewFindProduct(r) ==
    /\ review_req[r].pc = "idle"
    /\ \E pid \in ReviewPids, user \in Users \cup {NoUser}, rating \in Ratings :
          review_req' = [ review_req EXCEPT ![r] =
              [ pc     |-> IF user # NoUser /\ rating # 0
                              /\ 1 <= rating /\ rating <= 5
                              /\ FindOne(products_col, pid) # NoDoc
                           THEN "existing" ELSE "done",
                pid    |-> pid,
                user   |-> user,
                rating |-> rating,
                status |-> IF user = NoUser THEN 401
                           ELSE IF rating = 0 \/ ~(1 <= rating /\ rating <= 5)
                           THEN 400
                           ELSE IF FindOne(products_col, pid) = NoDoc THEN 404
                           ELSE 0,
                count  |-> 0,
                avg    |-> 0 ] ]
    /\ UNCHANGED <<coreVars, products_col, req, reviews_col, product_stats>>

\* add_review, lines 158-160: reviews_col.find_one for this product and user
AddReviewFindExisting(r) ==
    /\ review_req[r].pc = "existing"
    /\ IF HasReview(reviews_col, review_req[r].pid, review_req[r].user)
       THEN Answered(r, 400)
       ELSE review_req' = [ review_req EXCEPT ![r] = [ @ EXCEPT !.pc = "insert" ] ]
    /\ UNCHANGED <<coreVars, products_col, req, reviews_col, product_stats>>

\* add_review, lines 162-170: reviews_col.insert_one(review)
AddReviewInsert(r) ==
    /\ review_req[r].pc = "insert"
    /\ reviews_col' = Append(reviews_col,
            Review(review_req[r].pid, review_req[r].user, review_req[r].rating))
    /\ review_req' = [ review_req EXCEPT ![r] = [ @ EXCEPT !.pc = "recalc" ] ]
    /\ UNCHANGED <<coreVars, products_col, req, product_stats>>

\* recalc_rating, lines 70-73: the reviews of the product, their number and
\* their mean
RecalcFind(r) ==
    /\ review_req[r].pc = "recalc"
    /\ LET reviews == FindReviews(reviews_col, review_req[r].pid)
       IN  IF reviews = << >>
           THEN Answered(r, 200)
           ELSE review_req' = [ review_req EXCEPT ![r] =
                   [ @ EXCEPT !.pc = "update",
                              !.count = Len(reviews),
                              !.avg = Round1(SumRatings(reviews), Len(reviews)) ] ]
    /\ UNCHANGED <<coreVars, products_col, req, reviews_col, product_stats>>

\* recalc_rating, lines 74-78, and the answer of add_review, line 174
RecalcUpdate(r) ==
    /\ review_req[r].pc = "update"
    /\ product_stats' = UpdateOne(products_col, product_stats, review_req[r].pid,
                                  review_req[r].avg, review_req[r].count)
    /\ Answered(r, 200)
    /\ UNCHANGED <<coreVars, products_col, req, reviews_col>>

NextReviews ==
    \E r \in Reqs :
        \/ AddReviewFindProduct(r)
        \/ AddReviewFindExisting(r)
        \/ AddReviewInsert(r)
        \/ RecalcFind(r)
        \/ RecalcUpdate(r)

SpecReviews == InitReviews /\ [][NextReviews]_vars


-----------------------------------------------------------------------------
(* Vocabulary of the claims *)

IsQuery == resp.op \in {"by_id", "by_cart", "by_search"}

\* the product ids of the returned records, in order
ResultIds == [ k \in DOMAIN resp.records |-> resp.records[k].product_id ]

\* the similarity score of the k-th returned record
ScoreAt(k) == resp.sims[resp.indices[k]]

\* the call had an input the query accepts: a known pid, a cart with a known
\* id, a non-empty query string
ValidInput ==
    \/ resp.op = "by_id" /\ resp.pid \in ProductIds(df)
    \/ resp.op = "by_cart" /\ ValidIds(df, resp.pids) # << >>
    \/ resp.op = "by_search" /\ resp.query # << >>

-----------------------------------------------------------------------------
\* C1: recommend_by_id(pid, n) for a known pid never returns pid itself,
\* whatever ties or zero vectors the catalog holds.
C1_NeverReturnsSelf ==
    (resp.op = "by_id" /\ resp.pid \in ProductIds(df))
        => resp.pid \notin Range(ResultIds)

\* C2: the result of every query is in descending score order and records of
\* equal score are in ascending product-id order.
C2_SortedTiesById ==
    IsQuery =>
        \A k, l \in DOMAIN resp.indices :
            k < l =>
                \/ ScoreAt(k) > ScoreAt(l)
                \/ ScoreAt(k) = ScoreAt(l) /\ ResultIds[k] < ResultIds[l]

C5_CartExcludesSupplied ==
    (resp.op = "by_cart" /\ ValidIds(df, resp.pids) # << >>)
        => /\ resp.outcome = "ok"
           /\ Range(ResultIds) \cap Range(resp.pids) = {}
           /\ resp.sims = CartSims(Self, ValidIds(df, resp.pids))

C5_Witness ==
    /\ resp.op = "by_cart"
    /\ resp.pids = <<1, UnknownId>>
    /\ 1 \in ProductIds(df)
    /\ Len(resp.records) = 2

\* C6: with n <= 0 and a valid input every query returns the empty list.
C6_NonPositiveLimitEmpty ==
    (IsQuery /\ ValidInput /\ resp.n <= 0)
        => resp.outcome = "ok" /\ resp.records = << >>

\* a query string with no lexeme other than blanks
IsBlank(query) == \A i \in DOMAIN query : query[i] = Blank

\* C7: recommend_by_search with an empty or whitespace-only query returns the
\* empty list (stated for n > 0, where a non-empty result is not owed to the
\* handling of the limit).
C7_BlankQueryEmpty ==
    (resp.op = "by_search" /\ IsBlank(resp.query) /\ resp.n > 0)
        => resp.outcome = "ok" /\ resp.records = << >>

\* the contents the products collection has between writes: what
\* seed_products.py left and what a run of /api/seed leaves
Generations == { ScriptProducts, SeedProducts }

\* the response of a finished get_product is what the handler computes when
\* every read of it sees the collection G
FromGeneration(q, G) ==
    /\ q.product = FindOne(G, q.pid)
    /\ IF q.via = "fallback"
       THEN q.similar = SameCategory(G, q.product, q.pid)
       ELSE \A k \in DOMAIN q.similar :
               q.similar[k] =
                   Enrich(SimilarRaw(csv, q.pid)[k],
                          FindOne(G, q.similar[k].product_id))

\* C8: the response of every get_product that ends with 200, whatever
\* /api/seed requests run beside it, is derived from one generation of the
\* products collection, the old or the new.
C8_OneGeneration ==
    \A r \in Reqs :
        (req[r].handler = "get_product" /\ req[r].pc = "done"
            /\ req[r].status = 200)
            => \E G \in Generations : FromGeneration(req[r], G)

\* the ids a query must not return: the query product, the supplied cart
Excluded ==
    CASE resp.op = "by_id" -> {resp.pid}
      [] resp.op = "by_cart" -> Range(resp.pids)
      [] OTHER -> {}

\* the rows a query may return
Candidates == { i \in DOMAIN df : df[i].product_id \notin Excluded }

\* the returned rows are k distinct candidates and no candidate left out
\* scores higher than a returned one
TopOfCandidates(k) ==
    /\ Len(resp.indices) = k
    /\ Cardinality(Range(resp.indices)) = k
    /\ Range(resp.indices) \subseteq Candidates
    /\ \A i \in Candidates \ Range(resp.indices) :
          \A l \in DOMAIN resp.indices : resp.sims[i] <= ScoreAt(l)

\* C9: for n > 0 and a valid input every query returns exactly
\* min(n, number of non-excluded products) records, the top-scored ones.
C9_TopNOfNonExcluded ==
    (IsQuery /\ ValidInput /\ resp.n > 0)
        => TopOfCandidates(Min(resp.n, Cardinality(Candidates)))

\* the part of C9 that recommend_by_cart and recommend_by_search carry
C9_CartAndSearchOnly ==
    (resp.op \in {"by_cart", "by_search"} /\ ValidInput /\ resp.n > 0)
        => TopOfCandidates(Min(resp.n, Cardinality(Candidates)))

\* the retained terms of row i
TermsOf(i) == Range(Analyze(df[i].metadata))

SharesTerm(i, j) == TermsOf(i) \cap TermsOf(j) # {}

\* row q is returned, and before row r
ReturnedBefore(q, r) ==
    \E k, l \in DOMAIN resp.indices :
        resp.indices[k] = q /\ resp.indices[l] = r /\ k < l

\* C10: in recommend_by_id(p, n), n > 0, whenever a product sharing no
\* retained term with p is returned, every other product that shares a term
\* with p is returned before it.
C10_SharingRankedFirst ==
    (resp.op = "by_id" /\ resp.pid \in ProductIds(df) /\ resp.n > 0) =>
        LET p == IndexOf(df, resp.pid)
        IN  \A q, r \in DOMAIN df \ {p} :
                (SharesTerm(q, p) /\ ~SharesTerm(r, p) /\ r \in Range(resp.indices))
                    => ReturnedBefore(q, r)

\* the scenario of C10: on the three-product catalog recommend_by_id(1, 2)
\* returns id 2, then id 3
C10_Scenario ==
    (resp.op = "by_id" /\ resp.pid = 1 /\ resp.n = 2
        /\ [ i \in DOMAIN df |-> df[i].product_id ] = <<1, 2, 3>>)
        => ResultIds = <<2, 3>>

-----------------------------------------------------------------------------
\* the retained terms of a query string
QueryTerms(query) == Range(Analyze(query))

\* the rows whose text holds a retained term of the query
Holders(query) == { i \in DOMAIN df : TermsOf(i) \cap QueryTerms(query) # {} }

One == Scale * Scale

\* the rounding the fixed-point representation allows a similarity of 1
Tolerance == One \div 1000

\* C12: the similarity of any two product vectors of a catalog is symmetric
\* and lies between 0 and 1, where 1 is met up to the rounding of the
\* number representation.
C12_SymmetricInUnitRange ==
    constructed =>
        \A i, j \in DOMAIN cosine_sim :
            /\ cosine_sim[i][j] = cosine_sim[j][i]
            /\ 0 <= cosine_sim[i][j]
            /\ cosine_sim[i][j] <= One + Tolerance

C12_Witness ==
    /\ constructed
    /\ Len(df) = 3
    /\ \E i, j \in DOMAIN cosine_sim :
          i # j /\ 0 < cosine_sim[i][j] /\ cosine_sim[i][j] < One - Tolerance
    /\ \E i, j \in DOMAIN cosine_sim : i # j /\ cosine_sim[i][j] = 0

\* the rows of a file with no retained term
ZeroRows(file) ==
    { i \in DOMAIN file : Range(Analyze(Metadata(file[i]))) = {} }

\* self-similarity 1 for rows with terms, similarity 0 with every row for
\* rows without
SelfOneZeroNothing ==
    \A i \in DOMAIN cosine_sim :
        IF i \in ZeroRows(csv)
        THEN \A j \in DOMAIN cosine_sim :
                cosine_sim[i][j] = 0 /\ cosine_sim[j][i] = 0
        ELSE /\ cosine_sim[i][i] <= One + Tolerance
             /\ One - Tolerance <= cosine_sim[i][i]

\* C13: for every catalog with products, building the similarities raises no
\* error, a product with terms has similarity 1 with itself and a product
\* without retained terms has similarity 0 with every product and itself.
C13_SelfOneZeroNothingNoError ==
    (csv # << >> /\ resp.op # "none")
        => constructed /\ SelfOneZeroNothing

\* the part of C13 that holds: whenever the object is constructed
C13_WhenConstructed == constructed => SelfOneZeroNothing

\* C15: building from a catalog without rows raises no error, and every
\* query afterwards returns the empty list.
C15_EmptyCatalogBuilds ==
    (csv = << >> /\ resp.op # "none")
        => /\ constructed
           /\ resp.outcome = "ok"
           /\ resp.records = << >>

\* a cell with a missing value read as the empty string
Cell(c) == FillNa(c)

\* the text the three cells of a row give when a missing one counts as ''
TextOfCells(row) ==
    Cell(row.name) \o <<Blank>> \o Cell(row.category) \o <<Blank>>
        \o Cell(row.description)

HasMissingCell(row) ==
    row.name = NaN \/ row.category = NaN \/ row.description = NaN

\* C16: a row with a missing name, category or description keeps the terms
\* of its other cells, in its metadata and in its vector.
C16_MissingCellKeepsOthers ==
    constructed =>
        \A i \in DOMAIN df :
            HasMissingCell(csv[i]) =>
                /\ Analyze(df[i].metadata) = Analyze(TextOfCells(csv[i]))
                /\ \A t \in Range(Analyze(TextOfCells(csv[i]))) :
                      tfidf_matrix[i][t] > 0

\* the requests that ran /api/seed to its end, and those inside it
SeedsDone == { r \in Reqs : req[r].handler = "seed" /\ req[r].pc = "done" }

SeedsRunning == { r \in Reqs : req[r].handler = "seed" /\ req[r].pc # "done" }

\* no two documents of a collection carry the same product_id
UniqueIds(col) ==
    \A i, j \in DOMAIN col : col[i].product_id = col[j].product_id => i = j

\* C17: once /api/seed requests, however interleaved, have all completed, the
\* products collection holds the seeded list exactly once and no product_id
\* twice.
C17_SeedsLeaveOneCopy ==
    (SeedsDone # {} /\ SeedsRunning = {})
        => /\ UniqueIds(products_col)
           /\ products_col = SeedProducts

\* the last call is what the same call gives on the object rec
AnswerOn(rec) ==
    CASE resp.op = "by_id" ->
            resp = Call("by_id", resp.pid, << >>, << >>, resp.n, "ok",
                        ById(rec, resp.pid, resp.n))
      [] resp.op = "by_cart" /\ resp.outcome = "ValueError" ->
            /\ IntRaises(resp.pids)
            /\ resp = Call("by_cart", 0, resp.pids, << >>, resp.n,
                           "ValueError", EmptyAnswer)
      [] resp.op = "by_cart" /\ resp.outcome # "ValueError" ->
            LET sims == IF ValidIds(rec.df, resp.pids) = << >> THEN << >>
                        ELSE CartSims(rec, resp.pids)
            IN  \E argsort \in ArgSorts(sims) :
                   resp = Call("by_cart", 0, resp.pids, << >>, resp.n, "ok",
                               ByCart(rec, resp.pids, resp.n, argsort))
      [] resp.op = "by_search" ->
            LET sims == IF resp.query = << >> THEN << >>
                        ELSE SearchSims(rec, resp.query)
            IN  \E argsort \in ArgSorts(sims) :
                   resp = Call("by_search", 0, << >>, resp.query, resp.n, "ok",
                               BySearch(rec, resp.query, resp.n, argsort))
      [] OTHER -> TRUE

\* C14: whatever queries an object has answered, with a result, with the
\* empty list or with an error, its records, vocabulary, vectors and
\* similarities are those the constructor left, and the answer of the last
\* query is an answer the same query has on the newly built object.
C14_QueriesLeaveObject ==
    constructed => (Self = Build(csv) /\ AnswerOn(Build(csv)))

\* a second query on one object returns products, and one fails
C14_Witness ==
    /\ reused
    /\ resp.op = "by_search"
    /\ resp.records # << >>

C14_WitnessFailed == reused /\ resp.outcome = "ValueError"

\* no two reviews of one product by one user
OnePerUser ==
    \A i, j \in DOMAIN reviews_col :
        (reviews_col[i].product_id = reviews_col[j].product_id
            /\ reviews_col[i].user_email = reviews_col[j].user_email) => i = j

\* every add_review request that began has answered
ReviewsCompleted ==
    /\ \E r \in Reqs : review_req[r].pc = "done"
    /\ \A r \in Reqs : review_req[r].pc \in {"idle", "done"}

\* the stored review_count of every product is the number of its reviews
CountsMatch ==
    \A i \in DOMAIN products_col :
        product_stats[i].review_count
            = Len(FindReviews(reviews_col, products_col[i].product_id))

\* C18: however add_review requests interleave, reviews_col holds at most
\* one review for a product and a user, and once the requests have all
\* completed the review_count stored for a product is the number of reviews
\* stored for it.
C18_OneReviewAndCount ==
    /\ OnePerUser
    /\ ReviewsCompleted => CountsMatch

\* the two halves of C18 on their own
C18_OnePerUserAlone == OnePerUser

C18_CountAlone == (ReviewsCompleted /\ OnePerUser) => CountsMatch

====
